---- MODULE Spec2Model ----
(***************************************************************************)
(* State-machine model of the MusicBlue player window (src/src/MainWindow  *)
(* .cpp/.h): the track catalog and its dedup set, the search filter proxy,  *)
(* the list view's current index, the media engine as the window drives it, *)
(* the play history, shuffle/repeat flags and the seek bar.  The texts of    *)
(* the labels and the button icons are display only and are left out.       *)
(*                                                                          *)
(* Text (QString) is a sequence of one-character strings; the empty QString *)
(* is <<>>.  File paths are text, taken apart the way QFileInfo does.       *)
(***************************************************************************)
EXTENDS Integers, Sequences, FiniteSets, TLC

VARIABLES
    model_,           \* QStandardItemModel rows, in append order
    trackSet_,        \* QSet<QString> of the paths already added
    searchText,       \* searchEdit_->text()
    filterText_,      \* TrackFilterProxy::filterText_
    tokens_,          \* TrackFilterProxy::tokens_
    filter_,          \* the proxy's mapping: the accepted source rows, sorted
    currentIndex,     \* source row behind listView_->currentIndex(), 0 if invalid
    source,           \* player_->source() as a local file path, <<>> if none
    playbackState,    \* player_->playbackState()
    mediaStatus,      \* player_->mediaStatus()
    position,         \* the engine's playback position in ms
    currentFilePath_, \* MainWindow::currentFilePath_
    playHistory_,     \* MainWindow::playHistory_
    shuffleEnabled_,  \* MainWindow::shuffleEnabled_
    repeatMode_,      \* MainWindow::repeatMode_ (0 Off, 1 All, 2 One)
    durationMs_,      \* MainWindow::durationMs_
    seekValue,        \* seekSlider_->value()
    seekEnabled,      \* seekSlider_->isEnabled()
    lastOp,           \* the slot that ran last (history variable for the properties)
    setSourceCalls,   \* the paths the last slot passed to player_->setSource
    setPositionCalls  \* the positions the last slot passed to player_->setPosition

vars == <<model_, trackSet_, searchText, filterText_, tokens_, filter_,
          currentIndex, source, playbackState, mediaStatus, position,
          currentFilePath_, playHistory_, shuffleEnabled_, repeatMode_,
          durationMs_, seekValue, seekEnabled, lastOp, setSourceCalls,
          setPositionCalls>>

-----------------------------------------------------------------------------
(* Bounds of the model *)

\* longest play history the model lets grow
MaxHistory == 3

\* longest text the user types into the search box, one character at a time
MaxTextLen == 4

-----------------------------------------------------------------------------
(* Program constants *)

kSeekSliderRange == 1000

\* QSlider's range when setRange is never called on it (seekSlider_)
SeekSliderMinimum == 0
SeekSliderMaximum == 99

RepeatOff == 0
RepeatAll == 1
RepeatOne == 2

-----------------------------------------------------------------------------
(* Text *)

Range(s) == {s[i] : i \in 1..Len(s)}

Front(s) == SubSeq(s, 1, Len(s) - 1)

Last(s) == s[Len(s)]

UpperToLower ==
    ("A" :> "a") @@ ("B" :> "b") @@ ("C" :> "c") @@ ("G" :> "g") @@
    ("M" :> "m") @@ ("O" :> "o") @@ ("P" :> "p") @@ ("S" :> "s") @@
    ("T" :> "t") @@ ("X" :> "x")

\* QChar::toLower on the characters the model uses
ToLowerChar(c) == IF c \in DOMAIN UpperToLower THEN UpperToLower[c] ELSE c

\* QString::toLower
ToLower(text) == [i \in 1..Len(text) |-> ToLowerChar(text[i])]

\* QString::replace(before, after) for single characters
ReplaceChar(text, before, after) ==
    [i \in 1..Len(text) |-> IF text[i] = before THEN after ELSE text[i]]

\* the characters the regular expression class \s and QChar::isSpace accept
IsSpace(c) == c \in {" ", "\t", "\n"}

\* QString::replace(QRegularExpression("\\s+"), " ")
RECURSIVE CollapseSpaceRuns(_)
CollapseSpaceRuns(text) ==
    IF text = <<>> THEN <<>>
    ELSE IF IsSpace(Head(text))
         THEN IF Len(text) >= 2 /\ IsSpace(text[2])
              THEN CollapseSpaceRuns(Tail(text))
              ELSE <<" ">> \o CollapseSpaceRuns(Tail(text))
         ELSE <<Head(text)>> \o CollapseSpaceRuns(Tail(text))

RECURSIVE TrimLeft(_)
TrimLeft(text) ==
    IF text # <<>> /\ IsSpace(Head(text)) THEN TrimLeft(Tail(text)) ELSE text

RECURSIVE TrimRight(_)
TrimRight(text) ==
    IF text # <<>> /\ IsSpace(Last(text)) THEN TrimRight(Front(text)) ELSE text

\* QString::simplified: trimmed, every inner run of whitespace one space
Simplified(text) == CollapseSpaceRuns(TrimRight(TrimLeft(text)))

\* a faulty variant of normalizeText: the '-' is left in place
normalizeTextKeepsDash(text) ==
    Simplified(CollapseSpaceRuns(ReplaceChar(ToLower(text), "_", " ")))

normalizeText(text) ==
    Simplified(
        CollapseSpaceRuns(
            ReplaceChar(ReplaceChar(ToLower(text), "_", " "), "-", " ")))

\* QString::split(sep, Qt::SkipEmptyParts)
RECURSIVE SplitSkipEmpty(_, _, _)
SplitSkipEmpty(text, sep, part) ==
    IF text = <<>>
    THEN IF part = <<>> THEN <<>> ELSE <<part>>
    ELSE IF Head(text) = sep
         THEN (IF part = <<>> THEN <<>> ELSE <<part>>)
              \o SplitSkipEmpty(Tail(text), sep, <<>>)
         ELSE SplitSkipEmpty(Tail(text), sep, Append(part, Head(text)))

\* QString::contains(token)
Contains(key, token) ==
    \E i \in 0..(Len(key) - Len(token)) :
        SubSeq(key, i + 1, i + Len(token)) = token

\* QString::endsWith
EndsWith(text, suffix) ==
    /\ Len(text) >= Len(suffix)
    /\ SubSeq(text, Len(text) - Len(suffix) + 1, Len(text)) = suffix

\* position of the last occurrence of c in text, 0 if none
LastIndexOf(text, c) ==
    IF c \in Range(text)
    THEN CHOOSE i \in 1..Len(text) :
            /\ text[i] = c
            /\ \A j \in (i + 1)..Len(text) : text[j] # c
    ELSE 0

-----------------------------------------------------------------------------
(* QFileInfo on an absolute file path *)

\* QFileInfo::fileName: what follows the last '/'
FileName(path) == SubSeq(path, LastIndexOf(path, "/") + 1, Len(path))

\* QFileInfo::absolutePath: what precedes the last '/'
AbsolutePath(path) == SubSeq(path, 1, LastIndexOf(path, "/") - 1)

\* QFileInfo::completeBaseName: the file name up to its last '.'
CompleteBaseName(path) ==
    LET name == FileName(path)
        dot  == LastIndexOf(name, ".")
    IN  IF dot = 0 THEN name ELSE SubSeq(name, 1, dot - 1)

-----------------------------------------------------------------------------
(* The file system the scans read *)

DirMusic == <<"/", "m">>
DirAlbum == <<"/", "m", "/", "x">>
DirOther == <<"/", "n">>

\* the folders the startup scan or the folder dialog can hand to scanFolder
Folders == {DirMusic, DirAlbum, DirOther}

\* the regular files on disk, by absolute path
Disk ==
    { DirMusic \o <<"/", "b", ".", "m", "p", "3">>,
      DirAlbum \o <<"/", "B", ".", "M", "P", "3">>,
      DirOther \o <<"/", "a", "_", "c", ".", "o", "g", "g">>,
      DirMusic \o <<"/", "n", ".", "t", "x", "t">>,
      DirOther \o <<"/", "m", "p", "3">>,
      DirMusic \o <<"/", ".", "h", ".", "o", "g", "g">>,
      DirOther \o <<"/", ".", "d", "/", "c", ".", "a", "a", "c">> }

\* the name filters of scanFolder, each "*" followed by this suffix
kFilters ==
    { <<".", "m", "p", "3">>, <<".", "f", "l", "a", "c">>, <<".", "w", "a", "v">>,
      <<".", "o", "g", "g">>, <<".", "m", "4", "a">>, <<".", "a", "a", "c">> }

\* a faulty variant of MatchesFilters: the name is compared as it is spelled
MatchesFiltersCaseSensitive(path) ==
    \E suffix \in kFilters : EndsWith(FileName(path), suffix)

\* QDir name filters match without regard to case unless QDir::CaseSensitive is set
MatchesFilters(path) ==
    \E suffix \in kFilters : EndsWith(ToLower(FileName(path)), suffix)

\* QDirIterator::Subdirectories: the files in path and in every directory below it
IsUnder(path, dir) ==
    \/ AbsolutePath(path) = dir
    \/ /\ Len(AbsolutePath(path)) > Len(dir)
       /\ SubSeq(AbsolutePath(path), 1, Len(dir) + 1) = dir \o <<"/">>

\* QDir::Files without QDir::Hidden: a file whose name starts with '.' is not
\* listed, and a directory below dir whose name starts with '.' is not entered
IsHidden(path, dir) ==
    Contains(SubSeq(path, Len(dir) + 1, Len(path)), <<"/", ".">>)

\* what QDirIterator(path, kFilters, QDir::Files, Subdirectories) yields
Iterated(dir) ==
    {f \in Disk : IsUnder(f, dir) /\ MatchesFilters(f) /\ ~IsHidden(f, dir)}

\* the orders in which the iterator can yield a set of files
Orderings(S) ==
    {o \in [1..Cardinality(S) -> S] : \A i, j \in 1..Cardinality(S) : i # j => o[i] # o[j]}

-----------------------------------------------------------------------------
(* Catalog: model_ and trackSet_ *)

\* a faulty variant of Item: kFilePathRole holds the file name instead of the path
ItemFileName(filePath) ==
    [ title     |-> CompleteBaseName(filePath),
      filePath  |-> FileName(filePath),
      searchKey |-> normalizeText(CompleteBaseName(filePath) \o <<" ">>
                                  \o FileName(filePath) \o <<" ">>
                                  \o AbsolutePath(filePath)) ]

\* the item addTrack builds: display text, kFilePathRole, kSearchRole
Item(filePath) ==
    [ title     |-> CompleteBaseName(filePath),
      filePath  |-> filePath,
      searchKey |-> normalizeText(CompleteBaseName(filePath) \o <<" ">>
                                  \o FileName(filePath) \o <<" ">>
                                  \o AbsolutePath(filePath)) ]

\* Item, tabulated over the files of the disk
ItemOf == [filePath \in Disk |-> Item(filePath)]

\* the sequences of files the iterator can yield for each folder
IteratedOf == [dir \in Folders |-> Orderings(Iterated(dir))]

\* a faulty variant of addTrack: the membership test is dropped
addTrackNoDedup(cat, filePath) ==
    [ trackSet_ |-> cat.trackSet_ \cup {filePath},
      model_    |-> Append(cat.model_, ItemOf[filePath]) ]

\* MainWindow::addTrack on the pair cat = [trackSet_, model_]
addTrack(cat, filePath) ==
    IF filePath \in cat.trackSet_ THEN cat
    ELSE [ trackSet_ |-> cat.trackSet_ \cup {filePath},
           model_    |-> Append(cat.model_, ItemOf[filePath]) ]

\* the while loop of scanFolder over the files in the order the iterator yields them
RECURSIVE addTracks(_, _)
addTracks(cat, files) ==
    IF files = <<>> THEN cat
    ELSE addTracks(addTrack(cat, Head(files)), Tail(files))

-----------------------------------------------------------------------------
(* TrackFilterProxy *)

CharCode ==
    ("\t" :> 9) @@ ("\n" :> 10) @@ (" " :> 32) @@ ("-" :> 45) @@ ("." :> 46) @@
    ("/" :> 47) @@ ("3" :> 51) @@ ("4" :> 52) @@ ("_" :> 95) @@ ("a" :> 97) @@
    ("b" :> 98) @@ ("c" :> 99) @@ ("f" :> 102) @@ ("g" :> 103) @@ ("l" :> 108) @@
    ("m" :> 109) @@ ("n" :> 110) @@ ("o" :> 111) @@ ("p" :> 112) @@ ("q" :> 113) @@
    ("t" :> 116) @@ ("v" :> 118) @@ ("w" :> 119) @@ ("x" :> 120)

\* QString::compare(a, b, Qt::CaseInsensitive) < 0 on case-folded text
RECURSIVE LessText(_, _)
LessText(a, b) ==
    IF b = <<>> THEN FALSE
    ELSE IF a = <<>> THEN TRUE
    ELSE IF CharCode[Head(a)] # CharCode[Head(b)]
         THEN CharCode[Head(a)] < CharCode[Head(b)]
         ELSE LessText(Tail(a), Tail(b))

\* QSortFilterProxyModel::lessThan on column 0 with Qt::CaseInsensitive
lessThan(rows, left, right) ==
    LessText(ToLower(rows[left].title), ToLower(rows[right].title))

\* TrackFilterProxy::setFilterText: the tokens of a query
TokensOf(text) == SplitSkipEmpty(normalizeText(text), " ", <<>>)

\* a faulty variant of filterAcceptsRow: one token found in the key is enough
filterAcceptsRowAnyToken(rows, toks, sourceRow) ==
    IF toks = <<>> THEN TRUE
    ELSE IF rows[sourceRow].searchKey = <<>> THEN TRUE
    ELSE \E i \in 1..Len(toks) : Contains(rows[sourceRow].searchKey, toks[i])

\* TrackFilterProxy::filterAcceptsRow
filterAcceptsRow(rows, toks, sourceRow) ==
    IF toks = <<>> THEN TRUE
    ELSE IF rows[sourceRow].searchKey = <<>> THEN TRUE
    ELSE \A i \in 1..Len(toks) : Contains(rows[sourceRow].searchKey, toks[i])

\* the proxy puts a source row after the rows that do not sort after it
RECURSIVE InsertSorted(_, _, _)
InsertSorted(rows, sorted, sourceRow) ==
    IF sorted = <<>> THEN <<sourceRow>>
    ELSE IF lessThan(rows, sourceRow, Head(sorted))
         THEN <<sourceRow>> \o sorted
         ELSE <<Head(sorted)>> \o InsertSorted(rows, Tail(sorted), sourceRow)

\* the proxy's mapping after invalidateFilter()/sort(0): accepted rows, sorted,
\* rows that compare equal in source order
RECURSIVE ProxyRows(_, _, _)
ProxyRows(rows, toks, n) ==
    IF n = 0 THEN <<>>
    ELSE LET before == ProxyRows(rows, toks, n - 1)
         IN  IF filterAcceptsRow(rows, toks, n)
             THEN InsertSorted(rows, before, n)
             ELSE before

\* filter_->rowCount()
rowCount == Len(filter_)

\* filter_->mapToSource(filter_->index(row, 0)).data(kFilePathRole)
FilePathAt(row) == model_[filter_[row + 1]].filePath

\* the file paths of the visible rows
Visible == {model_[filter_[i]].filePath : i \in 1..Len(filter_)}

\* listView_->currentIndex().row(): the proxy row of the current index, -1 if invalid
CurrentRow ==
    IF currentIndex = 0 THEN -1
    ELSE (CHOOSE i \in 1..Len(filter_) : filter_[i] = currentIndex) - 1

-----------------------------------------------------------------------------
(* Inputs the environment can supply *)

\* texts typed into searchEdit_
Queries ==
    { <<>>, <<" ", "\t">>, <<"B">>, <<"q">> }

\* durations (ms) the engine reports with durationChanged
Durations == {0, 200, 3000}

\* positions (ms) the engine reports with positionChanged
Positions == {0, 100, 200, 3000}

\* values the user drags the seek bar towards
SeekGestures == {0, 50, 99, 500, 1000}

\* the characters the user types into searchEdit_
Alphabet == {"B", "x", "_", "-", " ", "\t"}

-----------------------------------------------------------------------------
(* The part of the state playTrack and the engine calls act on *)

Player ==
    [ source           |-> source,
      playbackState    |-> playbackState,
      mediaStatus      |-> mediaStatus,
      position         |-> position,
      currentFilePath_ |-> currentFilePath_,
      playHistory_     |-> playHistory_,
      currentIndex     |-> currentIndex,
      setSourceCalls   |-> <<>> ]

SetPlayer(p) ==
    /\ source' = p.source
    /\ playbackState' = p.playbackState
    /\ mediaStatus' = p.mediaStatus
    /\ position' = p.position
    /\ currentFilePath_' = p.currentFilePath_
    /\ playHistory_' = p.playHistory_
    /\ currentIndex' = p.currentIndex
    /\ setSourceCalls' = p.setSourceCalls

\* QMediaPlayer::setSource: the old media is dropped and the new one taken up.
\* "LoadedMedia" stands for every status of media in use (loading, loaded,
\* buffering, buffered): handleMediaStatus does not tell them apart.
EngineSetSource(p, filePath) ==
    [p EXCEPT !.source = filePath,
              !.playbackState = "StoppedState",
              !.mediaStatus = "LoadedMedia",
              !.position = 0,
              !.setSourceCalls = Append(@, filePath)]

\* QMediaPlayer::play: nothing to play without media or with media that failed to open
EnginePlay(p) ==
    IF p.source = <<>> \/ p.mediaStatus = "InvalidMedia" THEN p
    ELSE [p EXCEPT !.playbackState = "PlayingState",
                   !.mediaStatus = IF @ = "EndOfMedia" THEN "LoadedMedia" ELSE @,
                   !.position = IF p.mediaStatus = "EndOfMedia" THEN 0 ELSE @]

\* QMediaPlayer::pause
EnginePause(p) ==
    IF p.playbackState = "PlayingState"
    THEN [p EXCEPT !.playbackState = "PausedState"]
    ELSE p

\* QMediaPlayer::stop: playback halts and the position returns to the start
EngineStop(p) ==
    IF p.playbackState = "StoppedState" THEN p
    ELSE [p EXCEPT !.playbackState = "StoppedState", !.position = 0]

-----------------------------------------------------------------------------
(* Playback and navigation, as functions of the player state *)

\* line 333 with the comparison to the last entry dropped: a faulty variant of RecordHistory
RecordHistoryDuplicates(history, filePath, recordHistory) ==
    IF recordHistory THEN Append(history, filePath) ELSE history

\* line 333 with the append dropped: a faulty variant of RecordHistory
RecordHistoryNever(history, filePath, recordHistory) == history

\* line 333 of playTrack
RecordHistory(history, filePath, recordHistory) ==
    IF recordHistory /\ (history = <<>> \/ Last(history) # filePath)
    THEN Append(history, filePath)
    ELSE history

\* the loop of playTrack: the first visible row that holds filePath becomes current
SelectVisible(cur, filePath) ==
    IF \E i \in 1..Len(filter_) : model_[filter_[i]].filePath = filePath
    THEN LET i == CHOOSE i \in 1..Len(filter_) :
                    /\ model_[filter_[i]].filePath = filePath
                    /\ \A j \in 1..(i - 1) : model_[filter_[j]].filePath # filePath
         IN  filter_[i]
    ELSE cur

playTrack(p, filePath, recordHistory) ==
    IF filePath = <<>> THEN p
    ELSE LET loaded == EnginePlay(EngineSetSource(p, filePath))
         IN  [loaded EXCEPT
                !.currentFilePath_ = filePath,
                !.playHistory_ = RecordHistory(p.playHistory_, filePath, recordHistory),
                !.currentIndex = SelectVisible(p.currentIndex, filePath)]

\* a faulty variant of playIndex: the proxy row is read as a row of model_
playIndexSourceRow(p, row) ==
    IF row < 0 \/ row >= rowCount THEN p
    ELSE playTrack(p, model_[row + 1].filePath, TRUE)

\* playIndex on the proxy index of a row; a row outside 0..rowCount-1 is the invalid index
playIndex(p, row) ==
    IF row < 0 \/ row >= rowCount THEN p
    ELSE playTrack(p, FilePathAt(row), TRUE)

\* proxy row of a player state's current index, -1 if invalid
RowOf(p) ==
    IF p.currentIndex = 0 THEN -1
    ELSE (CHOOSE i \in 1..Len(filter_) : filter_[i] = p.currentIndex) - 1

playSelected(p) == playIndex(p, RowOf(p))

\* a faulty variant of playPause: the selection is tried before the loaded track
playPauseSelectionFirst(p) ==
    IF p.playbackState = "PlayingState" THEN EnginePause(p)
    ELSE IF p.currentIndex # 0 THEN playSelected(p)
    ELSE IF p.source # <<>> THEN EnginePlay(p)
    ELSE IF rowCount > 0 THEN playIndex(p, 0)
    ELSE p

playPause(p) ==
    IF p.playbackState = "PlayingState" THEN EnginePause(p)
    ELSE IF p.source # <<>> THEN EnginePlay(p)
    ELSE IF p.currentIndex # 0 THEN playSelected(p)
    ELSE IF rowCount > 0 THEN playIndex(p, 0)
    ELSE p

\* a faulty variant of NextRow: the random row is taken 1-based, in 1..total
NextRowOneBased(total, row, random) ==
    LET nextRow == IF shuffleEnabled_ THEN random + 1 ELSE row + 1
    IN  IF nextRow >= total
        THEN (IF repeatMode_ = RepeatAll THEN 0 ELSE -1)
        ELSE nextRow

\* a faulty variant of NextRow: the end of the list wraps whatever the repeat mode
NextRowAlwaysWraps(total, row, random) ==
    LET nextRow == IF shuffleEnabled_ THEN random ELSE row + 1
    IN  IF nextRow >= total THEN 0 ELSE nextRow

\* lines 353-354 of playNext; random is the value QRandomGenerator::bounded(total) returns
NextRow(total, row, random) ==
    LET nextRow == IF shuffleEnabled_ THEN random ELSE row + 1
    IN  IF nextRow >= total
        THEN (IF repeatMode_ = RepeatAll THEN 0 ELSE -1)
        ELSE nextRow

playNext(p, random) ==
    LET total == rowCount
    IN  IF total = 0 THEN p
        ELSE LET nextRow == NextRow(total, RowOf(p), random)
             IN  IF nextRow # -1 THEN playIndex(p, nextRow) ELSE p

\* a faulty variant of PrevRow: the start of the list wraps to the first row
PrevRowWrapsToFirst(total, row) ==
    LET prevRow == row - 1
    IN  IF prevRow < 0
        THEN (IF repeatMode_ = RepeatAll THEN (IF total > 0 THEN 0 ELSE -1) ELSE -1)
        ELSE prevRow

\* lines 360-361 of playPrevious
PrevRow(total, row) ==
    LET prevRow == row - 1
    IN  IF prevRow < 0
        THEN (IF repeatMode_ = RepeatAll THEN total - 1 ELSE -1)
        ELSE prevRow

\* a faulty variant of playPrevious: a history of one entry is replayed too
playPreviousFromOne(p) ==
    IF Len(p.playHistory_) >= 1
    THEN LET popped == IF Len(p.playHistory_) >= 2
                       THEN [p EXCEPT !.playHistory_ = Front(@)]
                       ELSE p
         IN  playTrack(popped, Last(popped.playHistory_), FALSE)
    ELSE LET prevRow == PrevRow(rowCount, RowOf(p))
         IN  IF prevRow # -1 THEN playIndex(p, prevRow) ELSE p

\* a faulty variant of playPrevious: the most recent entry is not removed
playPreviousNoPop(p) ==
    IF Len(p.playHistory_) >= 2
    THEN playTrack(p, Last(Front(p.playHistory_)), FALSE)
    ELSE LET prevRow == PrevRow(rowCount, RowOf(p))
         IN  IF prevRow # -1 THEN playIndex(p, prevRow) ELSE p

playPrevious(p) ==
    IF Len(p.playHistory_) >= 2
    THEN LET popped == [p EXCEPT !.playHistory_ = Front(@)]
         IN  playTrack(popped, Last(popped.playHistory_), FALSE)
    ELSE LET prevRow == PrevRow(rowCount, RowOf(p))
         IN  IF prevRow # -1 THEN playIndex(p, prevRow) ELSE p

\* the engine at the end of the media: playback stops, then the status is announced
EngineEndOfMedia(p) ==
    [p EXCEPT !.playbackState = "StoppedState", !.mediaStatus = "EndOfMedia"]

\* the engine when the media cannot be opened
EngineInvalidMedia(p) ==
    [p EXCEPT !.playbackState = "StoppedState", !.mediaStatus = "InvalidMedia"]

\* a faulty variant of handleMediaStatus: repeat One is not looked at
handleMediaStatusNoRepeatOne(p, status, random) ==
    IF status = "EndOfMedia" THEN playNext(p, random) ELSE p

handleMediaStatus(p, status, random) ==
    IF status = "EndOfMedia"
    THEN IF repeatMode_ = RepeatOne
         THEN playTrack(p, p.currentFilePath_, FALSE)
         ELSE playNext(p, random)
    ELSE p

\* the values QRandomGenerator::bounded(total) can return
RandomRows == IF rowCount = 0 THEN {0} ELSE 0..(rowCount - 1)

\* QAbstractSlider::setValue keeps the value inside the slider's range
Bounded(value) ==
    IF value < SeekSliderMinimum THEN SeekSliderMinimum
    ELSE IF value > SeekSliderMaximum THEN SeekSliderMaximum
    ELSE value

\* QAbstractSlider::setValue on a slider that shows old: the value it then shows,
\* and whether valueChanged is emitted (the value changed and the slider's signals
\* are not blocked)
SliderSetValue(old, value, signalsBlocked) ==
    [ value        |-> Bounded(value),
      valueChanged |-> ~signalsBlocked /\ Bounded(value) # old ]

\* a faulty variant of seek: the duration is not looked at
seekNoDurationCheck(durationMs, value) ==
    <<(durationMs * value) \div kSeekSliderRange>>

\* MainWindow::seek: the positions it passes to player_->setPosition
seek(durationMs, value) ==
    IF durationMs > 0
    THEN <<(durationMs * value) \div kSeekSliderRange>>
    ELSE <<>>

\* a faulty variant of updatePosition: setValue runs with the signals not blocked
updatePositionSignalsOpen(durationMs, bar, pos) ==
    IF durationMs > 0
    THEN LET set == SliderSetValue(bar, (pos * kSeekSliderRange) \div durationMs, FALSE)
         IN  [ seekValue        |-> set.value,
               setPositionCalls |-> IF set.valueChanged
                                    THEN seek(durationMs, set.value)
                                    ELSE <<>> ]
    ELSE [ seekValue |-> bar, setPositionCalls |-> <<>> ]

\* MainWindow::updatePosition on the bar's value: the value the bar then shows and
\* the setPosition calls made by seek, should valueChanged reach it
updatePosition(durationMs, bar, pos) ==
    IF durationMs > 0
    THEN LET set == SliderSetValue(bar, (pos * kSeekSliderRange) \div durationMs, TRUE)
         IN  [ seekValue        |-> set.value,
               setPositionCalls |-> IF set.valueChanged
                                    THEN seek(durationMs, set.value)
                                    ELSE <<>> ]
    ELSE [ seekValue |-> bar, setPositionCalls |-> <<>> ]

\* a faulty variant of cycleRepeat: the cycle has two modes
cycleRepeatTwoModes(mode) == (mode + 1) % 2

\* MainWindow::cycleRepeat on repeatMode_
cycleRepeat(mode) == (mode + 1) % 3

\* MainWindow::toggleShuffle on shuffleEnabled_
toggleShuffle(enabled) == ~enabled

-----------------------------------------------------------------------------
(* The state after construction *)

\* scanFolder: the loop over the iterator, then filter_->sort(0)
ScanFolder(dir) ==
    \E files \in IteratedOf[dir] :
        LET cat == addTracks([trackSet_ |-> trackSet_, model_ |-> model_], files)
        IN  /\ trackSet_' = cat.trackSet_
            /\ model_' = cat.model_
            /\ filter_' = ProxyRows(cat.model_, tokens_, Len(cat.model_))

\* the constructor: empty catalog, then the scan of the music directory if there is one
Init ==
    /\ searchText = <<>>
    /\ filterText_ = <<>>
    /\ tokens_ = <<>>
    /\ \E musicDir \in Folders \cup {<<>>} :
         \E files \in (IF musicDir = <<>> THEN {<<>>} ELSE IteratedOf[musicDir]) :
            LET cat == addTracks([trackSet_ |-> {}, model_ |-> <<>>], files)
            IN  /\ trackSet_ = cat.trackSet_
                /\ model_ = cat.model_
                /\ filter_ = ProxyRows(cat.model_, <<>>, Len(cat.model_))
    /\ currentIndex = 0
    /\ source = <<>>
    /\ playbackState = "StoppedState"
    /\ mediaStatus = "NoMedia"
    /\ position = 0
    /\ currentFilePath_ = <<>>
    /\ playHistory_ = <<>>
    /\ shuffleEnabled_ = FALSE
    /\ repeatMode_ = RepeatOff
    /\ durationMs_ = 0
    /\ seekValue = 0
    /\ seekEnabled = FALSE
    /\ lastOp = "init"
    /\ setSourceCalls = <<>>
    /\ setPositionCalls = <<>>

-----------------------------------------------------------------------------
(* Slots *)

catalogVars == <<model_, trackSet_>>
searchVars == <<searchText, filterText_, tokens_>>
flagVars == <<shuffleEnabled_, repeatMode_>>
seekVars == <<durationMs_, seekValue, seekEnabled>>
playerVars == <<source, playbackState, mediaStatus, position, currentFilePath_,
                playHistory_, currentIndex>>

\* a slot that calls neither player_->setSource nor player_->setPosition
NoEngineCalls ==
    /\ setSourceCalls' = <<>>
    /\ setPositionCalls' = <<>>

\* TokensOf, tabulated over the texts the user types
QueryTokens == [text \in Queries |-> TokensOf(text)]

\* normalizeText, tabulated over the texts the user types
QueryFilterText == [text \in Queries |-> normalizeText(text)]

\* a slot that only acts on the player state; the history stays within the model's bound
PlayerStep(p, op) ==
    /\ Len(p.playHistory_) <= MaxHistory
    /\ SetPlayer(p)
    /\ setPositionCalls' = <<>>
    /\ lastOp' = op
    /\ UNCHANGED <<catalogVars, searchVars, filter_, flagVars, seekVars>>

\* addFolder: the dialog returns a folder, or the empty string when cancelled
AddFolder ==
    /\ \E dir \in Folders \cup {<<>>} :
         IF dir # <<>> THEN ScanFolder(dir)
         ELSE UNCHANGED <<catalogVars, filter_>>
    /\ lastOp' = "addFolder"
    /\ NoEngineCalls
    /\ UNCHANGED <<searchVars, playerVars, flagVars, seekVars>>

\* onSearchTextChanged(text) -> setFilterText, with filterText = normalizeText(text)
\* and toks its tokens.  A current index whose row is filtered out moves to a row
\* that stays, or becomes invalid.
SearchTextChanged(text, filterText, toks) ==
    /\ searchText' = text
    /\ filterText_' = filterText
    /\ tokens_' = toks
    /\ filter_' = ProxyRows(model_, toks, Len(model_))
    /\ IF currentIndex = 0 \/ currentIndex \in Range(filter_')
       THEN UNCHANGED currentIndex
       ELSE currentIndex' \in Range(filter_') \cup {0}
    /\ lastOp' = "onSearchTextChanged"
    /\ NoEngineCalls
    /\ UNCHANGED <<catalogVars, source, playbackState, mediaStatus, position,
                   currentFilePath_, playHistory_, flagVars, seekVars>>

\* the user replaces the text of searchEdit_ by one of the queries
OnSearchTextChanged ==
    \E text \in Queries :
        /\ text # searchText
        /\ SearchTextChanged(text, QueryFilterText[text], QueryTokens[text])

\* the user types one more character at the end of searchEdit_
TypeCharacter ==
    \E c \in Alphabet :
        /\ Len(searchText) < MaxTextLen
        /\ LET text == Append(searchText, c)
           IN  SearchTextChanged(text, normalizeText(text), TokensOf(text))

\* the user erases the last character of searchEdit_
EraseCharacter ==
    /\ searchText # <<>>
    /\ LET text == Front(searchText)
       IN  SearchTextChanged(text, normalizeText(text), TokensOf(text))

\* the user makes another visible row current (click, arrow keys)
SelectRow ==
    \E row \in 0..(rowCount - 1) :
        /\ filter_[row + 1] # currentIndex
        /\ currentIndex' = filter_[row + 1]
        /\ lastOp' = "select"
        /\ NoEngineCalls
        /\ UNCHANGED <<catalogVars, searchVars, filter_, source, playbackState,
                       mediaStatus, position, currentFilePath_, playHistory_,
                       flagVars, seekVars>>

PlaySelected == PlayerStep(playSelected(Player), "playSelected")

PlayPause == PlayerStep(playPause(Player), "playPause")

PlayNext == \E random \in RandomRows : PlayerStep(playNext(Player, random), "playNext")

PlayPrevious == PlayerStep(playPrevious(Player), "playPrevious")

Stop == PlayerStep(EngineStop(Player), "stop")

\* mediaStatusChanged(InvalidMedia): the engine cannot open or decode the source
MediaInvalid ==
    /\ mediaStatus = "LoadedMedia"
    /\ PlayerStep(handleMediaStatus(EngineInvalidMedia(Player), "InvalidMedia", 0),
                  "mediaInvalid")

\* mediaStatusChanged(EndOfMedia): the playing track has run to its end
EndOfMedia ==
    /\ playbackState = "PlayingState"
    /\ mediaStatus = "LoadedMedia"
    /\ \E random \in RandomRows :
         PlayerStep(handleMediaStatus(EngineEndOfMedia(Player), "EndOfMedia", random),
                    "endOfMedia")

ToggleShuffle ==
    /\ shuffleEnabled_' = toggleShuffle(shuffleEnabled_)
    /\ lastOp' = "toggleShuffle"
    /\ NoEngineCalls
    /\ UNCHANGED <<catalogVars, searchVars, filter_, playerVars, repeatMode_, seekVars>>

CycleRepeat ==
    /\ repeatMode_' = cycleRepeat(repeatMode_)
    /\ lastOp' = "cycleRepeat"
    /\ NoEngineCalls
    /\ UNCHANGED <<catalogVars, searchVars, filter_, playerVars, shuffleEnabled_,
                   seekVars>>

\* updateDuration, on durationChanged(duration) for the loaded source
UpdateDuration ==
    \E duration \in Durations :
        /\ source # <<>>
        /\ durationMs_' = duration
        /\ seekEnabled' = (duration > 0)
        /\ lastOp' = "updateDuration"
        /\ NoEngineCalls
        /\ UNCHANGED <<catalogVars, searchVars, filter_, playerVars, flagVars,
                       seekValue>>

\* updatePosition, on positionChanged(p): setValue runs with the slider's signals
\* blocked, so valueChanged does not reach seek
UpdatePosition ==
    \E p \in Positions :
        LET updated == updatePosition(durationMs_, seekValue, p)
        IN  /\ source # <<>>
            /\ durationMs_ > 0 => p <= durationMs_
            /\ seekValue' = updated.seekValue
            /\ setPositionCalls' = updated.setPositionCalls
            /\ position' = IF updated.setPositionCalls # <<>>
                           THEN Last(updated.setPositionCalls)
                           ELSE p
            /\ setSourceCalls' = <<>>
            /\ lastOp' = "updatePosition"
            /\ UNCHANGED <<catalogVars, searchVars, filter_, source, playbackState,
                           mediaStatus, currentFilePath_, playHistory_,
                           currentIndex, flagVars, durationMs_, seekEnabled>>

\* the user moves the enabled seek bar; valueChanged(value) reaches seek when the
\* value changes
Seek ==
    \E gesture \in SeekGestures :
        LET set == SliderSetValue(seekValue, gesture, FALSE)
        IN  /\ seekEnabled
            /\ set.valueChanged
            /\ seekValue' = set.value
            /\ setPositionCalls' = seek(durationMs_, set.value)
            /\ position' = IF setPositionCalls' # <<>>
                           THEN Last(setPositionCalls')
                           ELSE position
            /\ setSourceCalls' = <<>>
            /\ lastOp' = "seek"
            /\ UNCHANGED <<catalogVars, searchVars, filter_, source, playbackState,
                           mediaStatus, currentFilePath_, playHistory_,
                           currentIndex, flagVars, durationMs_, seekEnabled>>

\* the slots of the catalog, the filter, playback and navigation
Next ==
    \/ AddFolder
    \/ OnSearchTextChanged
    \/ SelectRow
    \/ PlaySelected
    \/ PlayPause
    \/ PlayNext
    \/ PlayPrevious
    \/ Stop
    \/ MediaInvalid
    \/ EndOfMedia
    \/ ToggleShuffle
    \/ CycleRepeat

Spec == Init /\ [][Next]_vars

\* the slots of the seek bar, with the slots that load, start and stop a track.
\* The seek bar's slots leave the catalog, the filter, the history and the flags
\* alone, and the slots of Next leave durationMs_ and the seek bar alone.
SeekNext ==
    \/ SelectRow
    \/ PlaySelected
    \/ PlayPause
    \/ Stop
    \/ MediaInvalid
    \/ UpdateDuration
    \/ UpdatePosition
    \/ Seek

SeekSpec == Init /\ [][SeekNext]_vars

\* the scans and the search box, typed into one character at a time
SearchNext ==
    \/ AddFolder
    \/ TypeCharacter
    \/ EraseCharacter

SearchSpec == Init /\ [][SearchNext]_vars

-----------------------------------------------------------------------------
(* Properties *)

\* a step taken by the slot op
Ran(op) == lastOp' = op

\* a step that starts track filePath: the engine loads and plays it and it becomes
\* the current file
Starts(filePath) ==
    /\ source' = filePath
    /\ currentFilePath_' = filePath
    /\ playbackState' = "PlayingState"

\* C1 (as stated): whenever the visible set is empty, next() and previous() start
\* no track and leave currentFilePath_, the play history and the engine's source
\* unchanged, whatever the history holds.
C1_EmptyViewNavigationNoOp ==
    [][(rowCount = 0 /\ (Ran("playNext") \/ Ran("playPrevious")))
         => UNCHANGED <<currentFilePath_, playHistory_, source, playbackState>>]_vars

\* C1 (amended): whenever the visible set is empty, next() changes nothing of the
\* player, and previous() changes nothing of the player when the play history has
\* fewer than 2 entries.
C1_EmptyViewNoOpUnlessHistory ==
    [][(rowCount = 0
        /\ (Ran("playNext") \/ (Ran("playPrevious") /\ Len(playHistory_) < 2)))
         => UNCHANGED playerVars]_vars

\* C1 witness: next() has run on an empty view of a non-empty catalog, with shuffle
\* on, repeat All and a history of two tracks
C1_Witness ==
    /\ lastOp = "playNext"
    /\ rowCount = 0
    /\ Len(model_) > 0
    /\ shuffleEnabled_
    /\ repeatMode_ = RepeatAll
    /\ Len(playHistory_) >= 2

\* C2: with shuffle off, next() starts visible row CurrentRow + 1; when that is not
\* below the number of rows it starts row 0 under repeat All and otherwise leaves
\* the player as it is.
C2_NextSequential ==
    [][(Ran("playNext") /\ ~shuffleEnabled_ /\ rowCount > 0)
         => IF CurrentRow + 1 < rowCount
            THEN Starts(FilePathAt(CurrentRow + 1))
            ELSE IF repeatMode_ = RepeatAll
                 THEN Starts(FilePathAt(0))
                 ELSE UNCHANGED playerVars]_vars

\* C2 witness: three visible rows, repeat All, and next() has gone from row 2 to
\* row 0 (the history ends with the track of row 2, then the track of row 0)
C2_Witness ==
    /\ lastOp = "playNext"
    /\ ~shuffleEnabled_
    /\ repeatMode_ = RepeatAll
    /\ rowCount = 3
    /\ CurrentRow = 0
    /\ Len(playHistory_) >= 2
    /\ playHistory_[Len(playHistory_) - 1] = FilePathAt(2)
    /\ Last(playHistory_) = FilePathAt(0)
    /\ currentFilePath_ = FilePathAt(0)

\* C3: with at least 2 entries in the history, previous() removes the last entry
\* and starts the entry that is then last, and the history is exactly the old one
\* without its last entry.
C3_PreviousViaHistory ==
    [][(Ran("playPrevious") /\ Len(playHistory_) >= 2)
         => /\ playHistory_' = Front(playHistory_)
            /\ Starts(Last(Front(playHistory_)))]_vars

\* C3 witness: previous() has run and left a history of two entries whose last one
\* is playing although the filter hides it, which only the walk through the
\* history can do
C3_Witness ==
    /\ lastOp = "playPrevious"
    /\ Len(playHistory_) = 2
    /\ playHistory_[1] # playHistory_[2]
    /\ currentFilePath_ = playHistory_[2]
    /\ source = playHistory_[2]
    /\ playbackState = "PlayingState"
    /\ currentFilePath_ \notin Visible

\* C4: togglePlayPause() pauses when the engine is playing; else it plays the loaded
\* source again, leaving source, current file, history and selection alone; else it
\* starts the selected track; else it starts the first visible track; else it does
\* nothing.
C4_TogglePlayPausePrecedence ==
    [][Ran("playPause")
         => IF playbackState = "PlayingState"
            THEN /\ playbackState' = "PausedState"
                 /\ UNCHANGED <<source, mediaStatus, position, currentFilePath_,
                                playHistory_, currentIndex>>
            ELSE IF source # <<>>
            THEN /\ playbackState' = IF mediaStatus = "InvalidMedia"
                                     THEN playbackState
                                     ELSE "PlayingState"
                 /\ UNCHANGED <<source, currentFilePath_, playHistory_, currentIndex>>
            ELSE IF currentIndex # 0
            THEN Starts(model_[currentIndex].filePath)
            ELSE IF rowCount > 0
            THEN Starts(FilePathAt(0))
            ELSE UNCHANGED playerVars]_vars

\* C4 witness: togglePlayPause() has set the loaded track playing again although
\* another track is selected
C4_Witness ==
    /\ lastOp = "playPause"
    /\ playbackState = "PlayingState"
    /\ source # <<>>
    /\ currentIndex # 0
    /\ model_[currentIndex].filePath # source
    /\ currentFilePath_ = source
    /\ Last(playHistory_) = source

\* C5: at the end of the media, repeat One starts the current file again and leaves
\* the history alone; repeat Off and All leave the player as next() leaves it from
\* the state the engine is in at the end of the media.
C5_EndOfMedia ==
    [][Ran("endOfMedia")
         => IF repeatMode_ = RepeatOne
            THEN Starts(currentFilePath_) /\ UNCHANGED playHistory_
            ELSE \E random \in RandomRows :
                    LET next == playNext(EngineEndOfMedia(Player), random)
                    IN  /\ source' = next.source
                        /\ playbackState' = next.playbackState
                        /\ mediaStatus' = next.mediaStatus
                        /\ position' = next.position
                        /\ currentFilePath_' = next.currentFilePath_
                        /\ playHistory_' = next.playHistory_
                        /\ currentIndex' = next.currentIndex]_vars

\* C5 witness: the end of the media under repeat One has restarted the current
\* track, which the filter hides
C5_Witness ==
    /\ lastOp = "endOfMedia"
    /\ repeatMode_ = RepeatOne
    /\ playbackState = "PlayingState"
    /\ source = currentFilePath_
    /\ currentFilePath_ # <<>>
    /\ currentFilePath_ \notin Visible

\* C6: with shuffle on and a visible row, next() always starts a visible track, and
\* so does the end of the media under repeat Off and All: it never stops there.
C6_ShuffleNeverStops ==
    [][(shuffleEnabled_ /\ rowCount > 0
        /\ (Ran("playNext") \/ (Ran("endOfMedia") /\ repeatMode_ # RepeatOne)))
         => /\ source' \in Visible
            /\ Starts(source')]_vars

\* C6 witness: the end of the media with shuffle on and repeat Off has started a
\* track again, after at least two earlier tracks
C6_Witness ==
    /\ lastOp = "endOfMedia"
    /\ shuffleEnabled_
    /\ repeatMode_ = RepeatOff
    /\ rowCount >= 2
    /\ playbackState = "PlayingState"
    /\ Len(playHistory_) = MaxHistory

\* no two neighbours of the history are the same path
NoAdjacentDuplicates ==
    \A i \in 1..(Len(playHistory_) - 1) : playHistory_[i] # playHistory_[i + 1]

\* C7: the history never holds the same path twice in a row; a play that records
\* appends the path exactly when the history is empty or ends with another path,
\* and the replay of repeat One and the walk back of previous() add nothing.
C7_HistoryRecording ==
    /\ []NoAdjacentDuplicates
    /\ [][(Ran("playSelected") /\ currentIndex # 0)
            => LET filePath == model_[currentIndex].filePath
               IN  playHistory_' =
                       IF playHistory_ = <<>> \/ Last(playHistory_) # filePath
                       THEN Append(playHistory_, filePath)
                       ELSE playHistory_]_vars
    /\ [][(Ran("endOfMedia") /\ repeatMode_ = RepeatOne) => UNCHANGED playHistory_]_vars
    /\ [][(Ran("playPrevious") /\ Len(playHistory_) >= 2)
            => playHistory_' = Front(playHistory_)]_vars

\* C7 witness: the end of the media has started, through next(), the only track of
\* the history again, and the history still holds it once
C7_Witness ==
    /\ lastOp = "endOfMedia"
    /\ repeatMode_ # RepeatOne
    /\ playbackState = "PlayingState"
    /\ Len(playHistory_) = 1
    /\ playHistory_[1] = source

\* C8: no two rows of the catalog hold the same path and trackSet_ is the set of
\* their paths; adding a path that is present changes nothing, and adding a new
\* path twice makes the catalog one row longer.
C8_CatalogDedup ==
    /\ \A i, j \in 1..Len(model_) :
          i # j => model_[i].filePath # model_[j].filePath
    /\ trackSet_ = {model_[i].filePath : i \in 1..Len(model_)}
    /\ \A filePath \in Disk :
          LET cat   == [trackSet_ |-> trackSet_, model_ |-> model_]
              once  == addTrack(cat, filePath)
              twice == addTrack(once, filePath)
          IN  /\ filePath \in trackSet_ => once = cat
              /\ filePath \notin trackSet_ => Len(once.model_) = Len(model_) + 1
              /\ twice = once

\* C8 witness: a scan has run and the catalog holds every audio file of the disk,
\* the album's file before the one of the folder above it
C8_Witness ==
    /\ lastOp = "addFolder"
    /\ Len(model_) = 3
    /\ AbsolutePath(model_[1].filePath) = DirAlbum
    /\ trackSet_ = {f \in Disk : MatchesFilters(f) /\ ~IsHidden(f, <<>>)}

\* C9: the current file is empty or a path of the catalog.
C9_CurrentFileInCatalog ==
    currentFilePath_ = <<>> \/ currentFilePath_ \in trackSet_

\* C9 witness: previous() has walked back to a track that the filter hides
C9_Witness ==
    /\ lastOp = "playPrevious"
    /\ currentFilePath_ # <<>>
    /\ currentFilePath_ \notin Visible
    /\ currentFilePath_ \in trackSet_

\* C10: for a known duration, a position event p sets the seek bar to
\* p * 1000 \div duration; a user seek at bar value v sets the engine position to
\* duration * v \div 1000; and every value of 0..1000 the user aims at can be set.
C10_SeekBarResolution ==
    /\ [][(Ran("updatePosition") /\ durationMs_ > 0)
            => seekValue' = (position' * kSeekSliderRange) \div durationMs_]_vars
    /\ [][Ran("seek") => position' = (durationMs_ * seekValue') \div kSeekSliderRange]_vars
    /\ [](seekEnabled
            => \A value \in SeekGestures :
                  value # seekValue => ENABLED (Seek /\ seekValue' = value))

\* C11: a position event never sends a seek command, whatever it does to the value
\* the bar shows: setPosition is only ever called in a step of seek, which the user
\* moving the bar sets off.
C11_NoSeekFeedback ==
    /\ [][Ran("updatePosition") => setPositionCalls' = <<>>]_vars
    /\ [][setPositionCalls' # <<>> => Ran("seek")]_vars

\* C11 witness: a position event of a track of known duration has moved the bar to a
\* value the user never aims at, and no seek command was sent
C11_Witness ==
    /\ lastOp = "updatePosition"
    /\ durationMs_ = 3000
    /\ position = 100
    /\ seekValue = 33
    /\ seekValue \notin SeekGestures
    /\ setPositionCalls = <<>>

\* C12 (as stated): when the engine reports that it cannot open the source, the
\* window reacts: the current track is cleared, or another track is started.
C12_MediaLoadErrorSurfaced ==
    [][Ran("mediaInvalid")
         => \/ currentFilePath_' = <<>>
            \/ /\ setSourceCalls' # <<>>
               /\ currentFilePath_' # currentFilePath_]_vars

\* the search of the example: the query "song title" against the keys
\* "my song title.mp3" and "my other track.mp3", and the empty query against both
SearchExample ==
    LET rows == << [searchKey |-> <<"m", "y", " ", "s", "o", "n", "g", " ", "t", "i",
                                    "t", "l", "e", ".", "m", "p", "3">>],
                   [searchKey |-> <<"m", "y", " ", "o", "t", "h", "e", "r", " ", "t",
                                    "r", "a", "c", "k", ".", "m", "p", "3">>] >>
        toks == TokensOf(<<"s", "o", "n", "g", " ", "t", "i", "t", "l", "e">>)
    IN  /\ toks = << <<"s", "o", "n", "g">>, <<"t", "i", "t", "l", "e">> >>
        /\ filterAcceptsRow(rows, toks, 1)
        /\ ~filterAcceptsRow(rows, toks, 2)
        /\ filterAcceptsRow(rows, TokensOf(<<>>), 1)
        /\ filterAcceptsRow(rows, TokensOf(<<>>), 2)

\* C13: the tokens are those of the text in the search box, and there are none
\* exactly when the text holds nothing but whitespace and separators; the visible
\* rows are the rows of the catalog whose key contains every token, all rows when
\* there is no token; the visible paths are paths of the catalog; and the query
\* "song title" accepts "my song title.mp3" and rejects "my other track.mp3".
C13_SearchFilterAccepts ==
    /\ tokens_ = TokensOf(searchText)
    /\ (tokens_ = <<>>)
          <=> \A i \in 1..Len(searchText) :
                 IsSpace(searchText[i]) \/ searchText[i] \in {"_", "-"}
    /\ \A sourceRow \in 1..Len(model_) :
          sourceRow \in Range(filter_)
             <=> \/ tokens_ = <<>>
                 \/ \A i \in 1..Len(tokens_) :
                       Contains(model_[sourceRow].searchKey, tokens_[i])
    /\ Len(filter_) = Cardinality(Range(filter_))
    /\ Visible \subseteq trackSet_
    /\ SearchExample

\* C13 witness: a query of two different tokens shows one of the three tracks of
\* the catalog
C13_Witness ==
    /\ lastOp = "onSearchTextChanged"
    /\ Len(tokens_) = 2
    /\ tokens_[1] # tokens_[2]
    /\ Len(model_) = 3
    /\ rowCount = 1

\* a letter in the other case
SwapCase == ("B" :> "b") @@ ("b" :> "B") @@ ("x" :> "X") @@ ("X" :> "x")

\* the texts that differ from text in the case of one letter, in one of '_', '-'
\* and the space standing for another, or in one whitespace character more in a
\* run of whitespace
Variants(text) ==
    LET letters    == {i \in 1..Len(text) : text[i] \in DOMAIN SwapCase}
        separators == {i \in 1..Len(text) : text[i] \in {"_", "-", " "}}
        spaces     == {i \in 1..Len(text) : IsSpace(text[i])}
    IN  {[text EXCEPT ![i] = SwapCase[text[i]]] : i \in letters}
        \cup {[text EXCEPT ![i] = c] : i \in separators, c \in {"_", "-", " "}}
        \cup {SubSeq(text, 1, i) \o <<w>> \o SubSeq(text, i + 1, Len(text)) :
                 i \in spaces, w \in {" ", "\t"}}

\* normalize("My-Song_Title") = normalize("my song title")
NormalizeExample ==
    LET mixed == <<"M", "y", "-", "S", "o", "n", "g", "_", "T", "i", "t", "l", "e">>
        plain == <<"m", "y", " ", "s", "o", "n", "g", " ", "t", "i", "t", "l", "e">>
    IN  /\ normalizeText(mixed) = normalizeText(plain)
        /\ normalizeText(plain) = plain

\* C14: the filter text is the normalized text of the search box and normalizing it
\* again changes nothing; every text that differs from the typed one only in the
\* case of a letter, in '_' or '-' for a space, or in the length of a run of
\* whitespace normalizes to the same text; and "My-Song_Title" normalizes as
\* "my song title" does.
C14_NormalizeIdempotent ==
    /\ filterText_ = normalizeText(searchText)
    /\ normalizeText(filterText_) = filterText_
    /\ \A other \in Variants(searchText) : normalizeText(other) = filterText_
    /\ NormalizeExample

\* C14 witness: a typed text with a '-', an upper-case letter and a tab has been
\* normalized to two lower-case letters with a space between them
C14_Witness ==
    /\ lastOp = "onSearchTextChanged"
    /\ searchText = <<"-", "B", "\t", "x">>
    /\ filterText_ = <<"b", " ", "x">>

\* the extension of a file: what follows the last '.' of its name, in lower case;
\* no extension when the name has no '.'
Extension(path) ==
    LET name == FileName(path)
        dot  == LastIndexOf(name, ".")
    IN  IF dot = 0 THEN <<>> ELSE ToLower(SubSeq(name, dot + 1, Len(name)))

\* mp3, flac, wav, ogg, m4a, aac
AllowList ==
    { <<"m", "p", "3">>, <<"f", "l", "a", "c">>, <<"w", "a", "v">>,
      <<"o", "g", "g">>, <<"m", "4", "a">>, <<"a", "a", "c">> }

\* the files under dir, at any depth, whose extension is on the allow-list
AudioFilesUnder(dir) ==
    IF dir = <<>> THEN {}
    ELSE {f \in Disk : IsUnder(f, dir) /\ Extension(f) \in AllowList}

\* those of them that are not hidden and not inside a hidden directory below dir
ListedAudioFilesUnder(dir) == {f \in AudioFilesUnder(dir) : ~IsHidden(f, dir)}

\* C15 (as stated): the startup scan leaves the catalog with exactly the files under
\* the music directory whose extension is on the allow-list, and from every state
\* a scan of a folder adds exactly the files under it whose extension is on the
\* allow-list, one row a path.
C15_ScanAllowList ==
    /\ lastOp = "init"
          => \E musicDir \in Folders \cup {<<>>} : trackSet_ = AudioFilesUnder(musicDir)
    /\ \A dir \in Folders :
          \A files \in IteratedOf[dir] :
             LET cat == addTracks([trackSet_ |-> trackSet_, model_ |-> model_], files)
             IN  /\ cat.trackSet_ = trackSet_ \cup AudioFilesUnder(dir)
                 /\ Len(cat.model_) = Cardinality(cat.trackSet_)

\* C15 (amended): as stated, for the files that are not hidden: a file whose name
\* starts with '.' and the files of a directory below the folder whose name starts
\* with '.' are not added.
C15_ScanListedAllowList ==
    /\ lastOp = "init"
          => \E musicDir \in Folders \cup {<<>>} :
                trackSet_ = ListedAudioFilesUnder(musicDir)
    /\ \A dir \in Folders :
          \A files \in IteratedOf[dir] :
             LET cat == addTracks([trackSet_ |-> trackSet_, model_ |-> model_], files)
             IN  /\ cat.trackSet_ = trackSet_ \cup ListedAudioFilesUnder(dir)
                 /\ Len(cat.model_) = Cardinality(cat.trackSet_)

\* C15 witness: a scan of the folder that holds b.mp3, n.txt, a hidden .h.ogg and
\* below it x/B.MP3 has left a catalog of the two mp3 files
C15_Witness ==
    /\ lastOp = "addFolder"
    /\ Len(model_) = 2
    /\ {AbsolutePath(model_[1].filePath), AbsolutePath(model_[2].filePath)}
          = {DirMusic, DirAlbum}
    /\ {Extension(model_[1].filePath), Extension(model_[2].filePath)}
          = {<<"m", "p", "3">>}
    /\ FileName(model_[1].filePath) # FileName(model_[2].filePath)

\* a step that starts track filePath and records it as an ordinary play does
StartsRecorded(filePath) ==
    /\ Starts(filePath)
    /\ playHistory_' = IF playHistory_ = <<>> \/ Last(playHistory_) # filePath
                       THEN Append(playHistory_, filePath)
                       ELSE playHistory_

\* C16: with fewer than 2 entries in the history, previous() starts visible row
\* CurrentRow - 1; when that is below 0 (also without a current row) it starts the
\* last visible row under repeat All and otherwise leaves the player as it is; the
\* track it starts is recorded in the history as an ordinary play records it.
C16_PreviousFallback ==
    [][(Ran("playPrevious") /\ Len(playHistory_) < 2)
         => IF CurrentRow - 1 >= 0
            THEN StartsRecorded(FilePathAt(CurrentRow - 1))
            ELSE IF repeatMode_ = RepeatAll /\ rowCount > 0
                 THEN StartsRecorded(FilePathAt(rowCount - 1))
                 ELSE UNCHANGED playerVars]_vars

\* C16 witness: in a catalog of one track, where the history never reaches two
\* entries, previous() under repeat All has wrapped to the last row, started it and
\* recorded it
C16_Witness ==
    /\ lastOp = "playPrevious"
    /\ repeatMode_ = RepeatAll
    /\ Len(model_) = 1
    /\ rowCount = 1
    /\ setSourceCalls = <<FilePathAt(rowCount - 1)>>
    /\ playHistory_ = <<FilePathAt(rowCount - 1)>>
    /\ playbackState = "PlayingState"

\* C17: while the duration is unknown (durationMs_ = 0), a call of seek with any
\* value of the bar passes nothing to setPosition, no step calls setPosition, the
\* bar cannot be moved by the user, and a position event leaves the value of the
\* bar as it is; a step of seek or of a position event leaves the playback state,
\* the current track and the history alone.
C17_SeekIgnoredWithoutDuration ==
    /\ [](durationMs_ = 0
            => /\ ~seekEnabled
               /\ \A value \in SeekSliderMinimum..SeekSliderMaximum :
                     seek(durationMs_, value) = <<>>)
    /\ [][durationMs_ = 0 => setPositionCalls' = <<>>]_vars
    /\ [][(Ran("updatePosition") /\ durationMs_ = 0) => UNCHANGED seekValue]_vars
    /\ [][(Ran("seek") \/ Ran("updatePosition"))
            => UNCHANGED <<playbackState, currentFilePath_, playHistory_, source>>]_vars

\* C17 witness: the bar shows the value an earlier position event gave it, the
\* duration has since become unknown, and a position event past the start has
\* arrived and left the bar alone
C17_Witness ==
    /\ lastOp = "updatePosition"
    /\ durationMs_ = 0
    /\ ~seekEnabled
    /\ position > 0
    /\ seekValue > 0
    /\ setPositionCalls = <<>>

\* C18: the history is empty exactly when there is no current file, and a history
\* that is not empty ends with the current file.
C18_HistoryEndsWithCurrent ==
    /\ (playHistory_ = <<>>) <=> (currentFilePath_ = <<>>)
    /\ playHistory_ # <<>> => Last(playHistory_) = currentFilePath_

\* C18 witness: the end of the media under repeat One has started the current track
\* again, at the end of a history of other tracks before it
C18_Witness ==
    /\ lastOp = "endOfMedia"
    /\ repeatMode_ = RepeatOne
    /\ setSourceCalls = <<currentFilePath_>>
    /\ Len(playHistory_) >= 2
    /\ Last(playHistory_) = currentFilePath_

\* C19: a track that a step starts while the filter hides it is started by
\* previous() walking the history or by the replay of repeat One; what next(), the
\* end of the media under repeat Off and All, the index fallback of previous(),
\* play-selected and togglePlayPause() start is visible when the slot is called.
C19_StartedTracksVisible ==
    [][(setSourceCalls' # <<>> /\ Last(setSourceCalls') \notin Visible)
         => \/ Ran("playPrevious") /\ Len(playHistory_) >= 2
            \/ Ran("endOfMedia") /\ repeatMode_ = RepeatOne]_vars

\* C19 witness: togglePlayPause() has started, with nothing loaded before, the first
\* row of a view in which the filter hides other tracks
C19_Witness ==
    /\ lastOp = "playPause"
    /\ setSourceCalls # <<>>
    /\ Len(playHistory_) = 1
    /\ 0 < rowCount
    /\ rowCount < Len(model_)
    /\ setSourceCalls = <<FilePathAt(0)>>
    /\ filter_[1] # 1

\* C20: cycleRepeat() takes Off to All, All to One and One to Off, so that three
\* calls give the mode back; toggleShuffle() negates the flag, so that two calls give
\* it back; both leave the current file, the history, the catalog, the search query,
\* the other flag and the engine alone; and a new search text leaves the current
\* file, the history and the engine alone.
C20_FlagSlotsFrame ==
    /\ [](cycleRepeat(cycleRepeat(cycleRepeat(repeatMode_))) = repeatMode_)
    /\ [](toggleShuffle(toggleShuffle(shuffleEnabled_)) = shuffleEnabled_)
    /\ [][Ran("cycleRepeat")
            => /\ repeatMode_' = IF repeatMode_ = RepeatOff THEN RepeatAll
                                 ELSE IF repeatMode_ = RepeatAll THEN RepeatOne
                                 ELSE RepeatOff
               /\ UNCHANGED <<shuffleEnabled_, currentFilePath_, playHistory_,
                              catalogVars, searchVars, filter_, source,
                              playbackState, mediaStatus, position>>]_vars
    /\ [][Ran("toggleShuffle")
            => /\ shuffleEnabled_' = ~shuffleEnabled_
               /\ UNCHANGED <<repeatMode_, currentFilePath_, playHistory_,
                              catalogVars, searchVars, filter_, source,
                              playbackState, mediaStatus, position>>]_vars
    /\ [][Ran("onSearchTextChanged")
            => UNCHANGED <<currentFilePath_, playHistory_, source, playbackState,
                           mediaStatus, position>>]_vars

\* C20 witness: while a track plays, cycleRepeat() has taken the mode from One back
\* to Off, with shuffle on
C20_Witness ==
    /\ lastOp = "cycleRepeat"
    /\ repeatMode_ = RepeatOff
    /\ shuffleEnabled_
    /\ playbackState = "PlayingState"
    /\ playHistory_ # <<>>

====
